---- MODULE Spec2Model ----
(***************************************************************************)
(* Model of the CATculator formula-search core (src/models/base.py).       *)
(*                                                                         *)
(* Numbers.  The program computes with Python floats.  The model keeps     *)
(* every quantity exact:                                                   *)
(*   - masses, targetMass, ionization, exactMass: integers (mass units);   *)
(*   - minMass, maxMass: integers counting millionths of a mass unit       *)
(*     (ppmTolerance / 1e6 is a fraction over Million);                    *)
(*   - unsaturation and the bounds of unsaturationRange: integers counting *)
(*     halves (C - (H + X)/2 + N/2 + 1 is a fraction over 2);              *)
(*   - deviation: a fraction <<numerator, denominator>>.                   *)
(* Float rounding is outside the model.                                    *)
(*                                                                         *)
(* Python dicts keep insertion order: atomRanges is a sequence of          *)
(* <<element, min, max>> entries with pairwise distinct elements; a        *)
(* formula is a function from its element symbols to counts.               *)
(***************************************************************************)
EXTENDS Integers, Sequences, FiniteSets, TLC

\* ------------------------------------------------------------------ bounds
MaxCount == 2       \* range bounds of atomRanges are drawn from 0..MaxCount
MaxCap == 2         \* maxTotalAtoms of a direct generate_formulas call: 1..MaxCap

\* ------------------------------------------------------- program constants
Million == 1000000
DefaultMaxTotalAtoms == 150

\* ------------------------------------------------------------ input domain
Symbols == {"C", "H", "N", "Cl"}

\* monoisotopicMasses of the presentation script, as nominal (integer) masses
monoisotopicMasses == [s \in Symbols |->
    CASE s = "C" -> 12 [] s = "H" -> 1 [] s = "N" -> 14 [] s = "Cl" -> 35]

\* atomRanges: two distinct elements in either key order, each with a
\* (min, max) pair; min > max is an input a caller can pass
AtomRangeInputs ==
    { <<e1, e2>> : e1 \in { <<s, lo, hi>> : s \in Symbols, lo \in 0..MaxCount, hi \in 0..MaxCount },
                   e2 \in { <<s, lo, hi>> : s \in Symbols, lo \in 0..MaxCount, hi \in 0..MaxCount } }

DistinctKeys(ar) == \A i, j \in 1..Len(ar) : i # j => ar[i][1] # ar[j][1]

Keys(ar) == { ar[i][1] : i \in 1..Len(ar) }

\* mass tables: the full table, or the table without one symbol
Without(table, s) == [e \in (DOMAIN table) \ {s} |-> table[e]]

\* --------------------------------------------------------------- dict tools
Get(formula, s, default) == IF s \in DOMAIN formula THEN formula[s] ELSE default

RECURSIVE SumOver(_, _, _)
\* sum over the elements e of S of weight[e] * formula[e]
SumOver(S, weight, formula) ==
    IF S = {} THEN 0
    ELSE LET e == CHOOSE x \in S : TRUE
         IN weight[e] * formula[e] + SumOver(S \ {e}, weight, formula)

Ones(formula) == [e \in DOMAIN formula |-> 1]

Abs(x) == IF x < 0 THEN -x ELSE x

\* ---------------------------------------------------------------- Mass Model
\* calculate_mass raises KeyError at the first item whose symbol has no entry
MassKeyError(formula, monoisotopiqueMasses) ==
    \E e \in DOMAIN formula : e \notin DOMAIN monoisotopiqueMasses

calculate_mass(formula, monoisotopiqueMasses) ==
    SumOver(DOMAIN formula, monoisotopiqueMasses, formula)

\* DBE in halves: 2 * (C - (H + X)/2 + N/2 + 1)
calculate_unsaturation(formula) ==
    LET C == Get(formula, "C", 0)
        H == Get(formula, "H", 0)
        N == Get(formula, "N", 0)
        F == Get(formula, "F", 0)
        Cl == Get(formula, "Cl", 0)
        Br == Get(formula, "Br", 0)
        I == Get(formula, "I", 0)
        X == F + Cl + Br + I
    IN 2 * C - (H + X) + N + 2

\* ----------------------------------------------------------- Valence Checker
valency == [s \in {"C", "H", "N", "O", "S", "F", "Cl", "Br", "I"} |->
    CASE s = "C" -> 4 [] s = "H" -> 1 [] s = "N" -> 3 [] s = "O" -> 2 [] s = "S" -> 2
      [] s = "F" -> 1 [] s = "Cl" -> 7 [] s = "Br" -> 7 [] s = "I" -> 7]

totalBonds(formula) ==
    4 * Get(formula, "C", 0) + 1 * Get(formula, "H", 0) + 3 * Get(formula, "N", 0) +
    2 * Get(formula, "O", 0) + 2 * Get(formula, "S", 0) + 1 * Get(formula, "F", 0) +
    7 * Get(formula, "Cl", 0) + 7 * Get(formula, "Br", 0) + 7 * Get(formula, "I", 0)

\* "KeyError" when valency[...] is indexed by a symbol outside the table,
\* otherwise "True" / "False"
is_valid_formula(formula) ==
    IF \E e \in DOMAIN formula : e \notin DOMAIN valency
    THEN "KeyError"
    ELSE IF totalBonds(formula) <= SumOver(DOMAIN formula, valency, formula)
         THEN "True" ELSE "False"

\* -------------------------------------------------------- Formula Enumerator
\* len(range(min, max + 1))
RangeLen(entry) == IF entry[3] < entry[2] THEN 0 ELSE entry[3] - entry[2] + 1

RECURSIVE ProductLen(_, _)
\* number of tuples of product(*ranges[from..])
ProductLen(ar, from) ==
    IF from > Len(ar) THEN 1 ELSE RangeLen(ar[from]) * ProductLen(ar, from + 1)

\* the k-th tuple (k = 0, 1, ...) of product(*ranges): the last range cycles
\* fastest, each range ascending from its min
ComboAt(ar, k) ==
    [i \in 1..Len(ar) |->
        ar[i][2] + ((k \div ProductLen(ar, i + 1)) % RangeLen(ar[i]))]

\* {element: count for element, count in zip(atomRanges.keys(), combo)}
FormulaOf(ar, combo) ==
    [e \in Keys(ar) |-> combo[CHOOSE i \in 1..Len(ar) : ar[i][1] = e]]

TotalAtoms(formula) == SumOver(DOMAIN formula, Ones(formula), formula)

\* generate_formulas without the zero-atom test
GenStepNoZeroSkip(formula, monoisotopiqueMasses, lo, hi, cap) ==
    IF TotalAtoms(formula) > cap THEN "skip"
    ELSE IF MassKeyError(formula, monoisotopiqueMasses) THEN "KeyError"
    ELSE IF lo <= calculate_mass(formula, monoisotopiqueMasses) * Million
            /\ calculate_mass(formula, monoisotopiqueMasses) * Million <= hi
         THEN "yield"
         ELSE "skip"

\* generate_formulas with the upper end of the window exclusive
GenStepStrictUpper(formula, monoisotopiqueMasses, lo, hi, cap) ==
    IF TotalAtoms(formula) = 0 \/ TotalAtoms(formula) > cap THEN "skip"
    ELSE IF MassKeyError(formula, monoisotopiqueMasses) THEN "KeyError"
    ELSE IF lo <= calculate_mass(formula, monoisotopiqueMasses) * Million
            /\ calculate_mass(formula, monoisotopiqueMasses) * Million < hi
         THEN "yield"
         ELSE "skip"

\* one pass of the loop body of generate_formulas over a product point
GenStep(formula, monoisotopiqueMasses, lo, hi, cap) ==
    IF TotalAtoms(formula) = 0 \/ TotalAtoms(formula) > cap THEN "skip"
    ELSE IF MassKeyError(formula, monoisotopiqueMasses) THEN "KeyError"
    ELSE IF lo <= calculate_mass(formula, monoisotopiqueMasses) * Million
            /\ calculate_mass(formula, monoisotopiqueMasses) * Million <= hi
         THEN "yield"
         ELSE "skip"

\* --------------------------------------------------------- Search Orchestrator
\* the deviation with its operands swapped: (mass - exactMass) / mass
DeviationReversed(exact, mass) == <<(mass - exact) * Million, mass>>

\* deviationppm = ((exactMass - mass) / mass) * 1e6 as a fraction
Deviation(exact, mass) == <<(exact - mass) * Million, mass>>

\* a sort key without abs(): the signed deviations compared
SignedLess(a, b) == a[1] * b[2] < b[1] * a[2]

\* a comparison that lets an equal key overtake: the sort is no longer stable
AbsLessOrEqual(a, b) == Abs(a[1]) * b[2] <= Abs(b[1]) * a[2]

\* abs(a) < abs(b) for fractions with positive denominators: the comparison
\* list.sort makes between two keys abs(x["deviation"])
AbsLess(a, b) == Abs(a[1]) * b[2] < Abs(b[1]) * a[2]

Candidate(formula, monoisotopiqueMasses, exact, ion) ==
    [formula |-> formula,
     mass |-> calculate_mass(formula, monoisotopiqueMasses),
     mz |-> calculate_mass(formula, monoisotopiqueMasses) + ion,
     deviation |-> Deviation(exact, calculate_mass(formula, monoisotopiqueMasses)),
     unsaturation |-> calculate_unsaturation(formula)]

\* the unsaturation filter with its lower bound exclusive
InUnsaturationRangeStrict(u, range) == range[1] < u /\ u <= range[2]

\* unsaturationRange[0] <= unsaturation <= unsaturationRange[1], in halves
InUnsaturationRange(u, range) == range[1] <= u /\ u <= range[2]

RECURSIVE InsertByAbsDeviation(_, _)
\* insert x after every element whose key is <= the key of x
InsertByAbsDeviation(sorted, x) ==
    IF sorted = <<>> THEN <<x>>
    ELSE IF AbsLess(x.deviation, Head(sorted).deviation)
         THEN <<x>> \o sorted
         ELSE <<Head(sorted)>> \o InsertByAbsDeviation(Tail(sorted), x)

RECURSIVE SortByAbsDeviation(_)
\* list.sort(key=lambda x: abs(x["deviation"])): ascending and stable
SortByAbsDeviation(list) ==
    IF list = <<>> THEN <<>>
    ELSE InsertByAbsDeviation(SortByAbsDeviation(SubSeq(list, 1, Len(list) - 1)),
                              list[Len(list)])

\* find_molecular_formulas without its print statement
PrintNothing(out, lo, hi) == out

\* print('Mass range from the expected value:', '[', minMass, ',', maxMass, ']')
PrintMassRange(out, lo, hi) == Append(out, <<"Mass range from the expected value:", lo, hi>>)


\* ----------------------------------------------------------------------- state
VARIABLES
    call,                   \* the function that was called
    pc,                     \* "call", "loop", "returned" or "raised"
    atomRanges, monoisotopiqueMasses,
    targetMass, ppmTolerance, ionization, unsaturationRange,
    minMass, maxMass, maxTotalAtoms,
    exactMass,
    visited,                \* product points the generator has consumed
    yielded,                \* formulas the generator has yielded, in order
    possible_formulas,      \* the list find_molecular_formulas builds and returns
    formula,                \* argument of is_valid_formula
    valid,                  \* its return value ("None" until it returns)
    raised,                 \* the exception that ended the call, or "None"
    stdout                  \* lines printed so far

vars == <<call, pc, atomRanges, monoisotopiqueMasses, targetMass, ppmTolerance,
          ionization, unsaturationRange, minMass, maxMass, maxTotalAtoms, exactMass,
          visited, yielded, possible_formulas, formula, valid, raised, stdout>>

findArgs == <<atomRanges, monoisotopiqueMasses, targetMass, ppmTolerance,
              ionization, unsaturationRange>>

\* inputs of find_molecular_formulas
TargetMasses == {16, 17}
Ionizations == {0, 1}
PpmTolerances == {500000, 1000000}
UnsaturationRanges == {<<0, 200>>, <<2, 4>>}        \* (0, 100) and (1, 2), in halves

\* inputs of a direct generate_formulas call, in millionths
MassWindows == {<<0, 14 * Million>>, <<12 * Million, 24 * Million>>, <<14 * Million, 14 * Million>>}

\* inputs of is_valid_formula: "P" has no entry in the valence table
FormulaSymbols == {"C", "H", "Cl", "P"}
FormulaInputs == UNION { [S -> 0..MaxCount] : S \in SUBSET FormulaSymbols }

InitFind ==
    /\ call = "find_molecular_formulas"
    /\ pc = "call"
    /\ atomRanges \in AtomRangeInputs
    /\ DistinctKeys(atomRanges)
    /\ monoisotopiqueMasses \in
          {monoisotopicMasses} \cup { Without(monoisotopicMasses, s) : s \in Keys(atomRanges) }
    /\ targetMass \in TargetMasses
    /\ ppmTolerance \in PpmTolerances
    /\ ionization \in Ionizations
    /\ unsaturationRange \in UnsaturationRanges
    /\ minMass = 0 /\ maxMass = 0
    /\ maxTotalAtoms = DefaultMaxTotalAtoms
    /\ exactMass = 0
    /\ formula = <<>>

InitGenerate ==
    /\ call = "generate_formulas"
    /\ pc = "loop"
    /\ atomRanges \in AtomRangeInputs
    /\ DistinctKeys(atomRanges)
    /\ monoisotopiqueMasses \in
          {monoisotopicMasses, Without(monoisotopicMasses, atomRanges[2][1])}
    /\ \E w \in MassWindows : minMass = w[1] /\ maxMass = w[2]
    /\ maxTotalAtoms \in 1..MaxCap
    /\ targetMass = 0 /\ ppmTolerance = 0 /\ ionization = 0
    /\ unsaturationRange = <<0, 0>>
    /\ exactMass = 0
    /\ formula = <<>>

InitIsValid ==
    /\ call = "is_valid_formula"
    /\ pc = "call"
    /\ formula \in FormulaInputs
    /\ atomRanges = <<>>
    /\ monoisotopiqueMasses = monoisotopicMasses
    /\ targetMass = 0 /\ ppmTolerance = 0 /\ ionization = 0
    /\ unsaturationRange = <<0, 0>>
    /\ minMass = 0 /\ maxMass = 0
    /\ maxTotalAtoms = DefaultMaxTotalAtoms
    /\ exactMass = 0

Init ==
    /\ InitFind \/ InitGenerate \/ InitIsValid
    /\ visited = 0
    /\ yielded = <<>>
    /\ possible_formulas = <<>>
    /\ valid = "None"
    /\ raised = "None"
    /\ stdout = <<>>

\* --------------------------------------------------------------------- actions
\* find_molecular_formulas up to the for statement: the window, the print, the
\* empty list, and the generator object (whose body has not started)
FindCall ==
    /\ call = "find_molecular_formulas" /\ pc = "call"
    /\ exactMass' = targetMass - ionization
    /\ minMass' = (targetMass - ionization) * Million - ppmTolerance * (targetMass - ionization)
    /\ maxMass' = (targetMass - ionization) * Million + ppmTolerance * (targetMass - ionization)
    /\ stdout' = PrintMassRange(stdout, minMass', maxMass')
    /\ possible_formulas' = <<>>
    /\ pc' = "loop"
    /\ UNCHANGED <<call, findArgs, maxTotalAtoms, visited, yielded, formula, valid, raised>>

\* the product point the generator looks at next
Current == FormulaOf(atomRanges, ComboAt(atomRanges, visited))

Looping == pc = "loop" /\ visited < ProductLen(atomRanges, 1)

Outcome == GenStep(Current, monoisotopiqueMasses, minMass, maxMass, maxTotalAtoms)

\* the generator passes over a point (continue, or mass outside the window)
SkipPoint ==
    /\ Looping /\ Outcome = "skip"
    /\ visited' = visited + 1
    /\ UNCHANGED <<call, pc, findArgs, minMass, maxMass, maxTotalAtoms, exactMass,
                   yielded, possible_formulas, formula, valid, raised, stdout>>

\* calculate_mass raises inside the generator; nothing catches it
RaiseKeyError ==
    /\ Looping /\ Outcome = "KeyError"
    /\ visited' = visited + 1
    /\ raised' = "KeyError"
    /\ pc' = "raised"
    /\ UNCHANGED <<call, findArgs, minMass, maxMass, maxTotalAtoms, exactMass,
                   yielded, possible_formulas, formula, valid, stdout>>

\* the generator yields to a consumer that only collects (list(...))
YieldFormula ==
    /\ call = "generate_formulas"
    /\ Looping /\ Outcome = "yield"
    /\ visited' = visited + 1
    /\ yielded' = Append(yielded, Current)
    /\ UNCHANGED <<call, pc, findArgs, minMass, maxMass, maxTotalAtoms, exactMass,
                   possible_formulas, formula, valid, raised, stdout>>

\* the generator yields and the loop body of find_molecular_formulas keeps it
KeepCandidate ==
    /\ call = "find_molecular_formulas"
    /\ Looping /\ Outcome = "yield"
    /\ InUnsaturationRange(calculate_unsaturation(Current), unsaturationRange)
    /\ visited' = visited + 1
    /\ yielded' = Append(yielded, Current)
    /\ possible_formulas' =
          Append(possible_formulas, Candidate(Current, monoisotopiqueMasses, exactMass, ionization))
    /\ UNCHANGED <<call, pc, findArgs, minMass, maxMass, maxTotalAtoms, exactMass,
                   formula, valid, raised, stdout>>

\* the generator yields and the loop body drops it
DropCandidate ==
    /\ call = "find_molecular_formulas"
    /\ Looping /\ Outcome = "yield"
    /\ ~InUnsaturationRange(calculate_unsaturation(Current), unsaturationRange)
    /\ visited' = visited + 1
    /\ yielded' = Append(yielded, Current)
    /\ UNCHANGED <<call, pc, findArgs, minMass, maxMass, maxTotalAtoms, exactMass,
                   possible_formulas, formula, valid, raised, stdout>>

\* the product is exhausted: find_molecular_formulas sorts and returns
FindReturn ==
    /\ call = "find_molecular_formulas"
    /\ pc = "loop" /\ visited = ProductLen(atomRanges, 1)
    /\ possible_formulas' = SortByAbsDeviation(possible_formulas)
    /\ pc' = "returned"
    /\ UNCHANGED <<call, findArgs, minMass, maxMass, maxTotalAtoms, exactMass,
                   visited, yielded, formula, valid, raised, stdout>>

\* the product is exhausted: the generator is done
GenerateReturn ==
    /\ call = "generate_formulas"
    /\ pc = "loop" /\ visited = ProductLen(atomRanges, 1)
    /\ pc' = "returned"
    /\ UNCHANGED <<call, findArgs, minMass, maxMass, maxTotalAtoms, exactMass,
                   visited, yielded, possible_formulas, formula, valid, raised, stdout>>

IsValidCall ==
    /\ call = "is_valid_formula" /\ pc = "call"
    /\ IF is_valid_formula(formula) = "KeyError"
       THEN raised' = "KeyError" /\ pc' = "raised" /\ valid' = valid
       ELSE valid' = is_valid_formula(formula) /\ pc' = "returned" /\ raised' = raised
    /\ UNCHANGED <<call, findArgs, minMass, maxMass, maxTotalAtoms, exactMass,
                   visited, yielded, possible_formulas, formula, stdout>>

Next ==
    \/ FindCall
    \/ SkipPoint
    \/ RaiseKeyError
    \/ YieldFormula
    \/ KeepCandidate
    \/ DropCandidate
    \/ FindReturn
    \/ GenerateReturn
    \/ IsValidCall

Spec == Init /\ [][Next]_vars

TypeOK ==
    /\ call \in {"find_molecular_formulas", "generate_formulas", "is_valid_formula"}
    /\ pc \in {"call", "loop", "returned", "raised"}
    /\ visited \in 0..ProductLen(atomRanges, 1)
    /\ raised \in {"None", "KeyError"}
    /\ valid \in {"None", "True", "False"}


\* ------------------------------------------------------------------ properties
Enumerating == call \in {"find_molecular_formulas", "generate_formulas"}

Finding == call = "find_molecular_formulas"

\* every point of the Cartesian product of the inclusive intervals [min, max]
ProductPoints ==
    { c \in [1..Len(atomRanges) -> 0..MaxCount] :
        \A i \in 1..Len(atomRanges) : atomRanges[i][2] <= c[i] /\ c[i] <= atomRanges[i][3] }

RECURSIVE SeqSum(_)
SeqSum(c) == IF c = <<>> THEN 0 ELSE Head(c) + SeqSum(Tail(c))

\* the counts of a formula in the key order of atomRanges
CountsOf(f) == [i \in 1..Len(atomRanges) |-> f[atomRanges[i][1]]]

\* the mass of a point, from the table entries of the keys
PointMass(c) ==
    SeqSum([i \in 1..Len(atomRanges) |-> monoisotopiqueMasses[atomRanges[i][1]] * c[i]])

MissingSymbol == \E e \in Keys(atomRanges) : e \notin DOMAIN monoisotopiqueMasses

InvalidEntry == \E i \in 1..Len(atomRanges) : atomRanges[i][2] > atomRanges[i][3]

\* C1: generate_formulas never yields a formula whose total atom count is 0 or
\* greater than maxTotalAtoms, nor one whose mass is below minMass or above
\* maxMass; a mass equal to minMass or maxMass is allowed.
C1_YieldedWithinBounds ==
    Enumerating =>
        \A i \in 1..Len(yielded) :
            LET c == CountsOf(yielded[i]) IN
            /\ SeqSum(c) # 0
            /\ SeqSum(c) <= maxTotalAtoms
            /\ minMass <= PointMass(c) * Million
            /\ PointMass(c) * Million <= maxMass

\* a consumed generator that yielded a formula of mass exactly maxMass, passed
\* over the zero-atom point and passed over a point above maxTotalAtoms
C1_Witness ==
    /\ call = "generate_formulas" /\ pc = "returned"
    /\ \E i \in 1..Len(yielded) : PointMass(CountsOf(yielded[i])) * Million = maxMass
    /\ \E c \in ProductPoints : SeqSum(c) = 0
    /\ \E c \in ProductPoints : SeqSum(c) > maxTotalAtoms

\* the points the enumerator has to yield
Qualifying ==
    { c \in ProductPoints :
        /\ SeqSum(c) > 0 /\ SeqSum(c) <= maxTotalAtoms
        /\ minMass <= PointMass(c) * Million /\ PointMass(c) * Million <= maxMass }

\* C2: once the generator is consumed to its end, every point of the product
\* whose total atom count is in (0, maxTotalAtoms] and whose mass lies in
\* [minMass, maxMass] has been yielded exactly once.
C2_Complete ==
    (Enumerating /\ pc = "returned" /\ ~MissingSymbol) =>
        \A c \in Qualifying :
            Cardinality({ i \in 1..Len(yielded) : CountsOf(yielded[i]) = c }) = 1

\* a consumed generator with two qualifying points, one of them on the upper
\* boundary of the window, and a point outside the window
C2_Witness ==
    /\ call = "generate_formulas" /\ pc = "returned" /\ ~MissingSymbol
    /\ Cardinality(Qualifying) >= 2
    /\ \E c \in Qualifying : PointMass(c) * Million = maxMass
    /\ \E c \in ProductPoints : SeqSum(c) > 0 /\ SeqSum(c) <= maxTotalAtoms /\ c \notin Qualifying

\* |deviation| of result i is at most |deviation| of result j
AbsDevLeq(i, j) ==
    Abs(possible_formulas[i].deviation[1]) * possible_formulas[j].deviation[2]
        <= Abs(possible_formulas[j].deviation[1]) * possible_formulas[i].deviation[2]

\* C3: the list find_molecular_formulas returns is sorted by ascending absolute
\* deviation: each result's |deviation| is at most that of its successor.
C3_SortedByAbsDeviation ==
    (Finding /\ pc = "returned") =>
        \A i \in 1..(Len(possible_formulas) - 1) : AbsDevLeq(i, i + 1)

\* position of a formula in the order the generator yielded it
YieldIndex(f) == CHOOSE i \in 1..Len(yielded) : yielded[i] = f

\* a returned list where a later-yielded candidate with a negative deviation
\* stands before an earlier-yielded one of strictly larger |deviation|
C3_Witness ==
    /\ Finding /\ pc = "returned"
    /\ \E i \in 1..(Len(possible_formulas) - 1) :
          /\ YieldIndex(possible_formulas[i].formula) > YieldIndex(possible_formulas[i + 1].formula)
          /\ possible_formulas[i].deviation[1] < 0
          /\ ~AbsDevLeq(i + 1, i)

\* DBE = C - (H + X)/2 + N/2 + 1 of a formula over Symbols, in halves
DBEHalves(f) ==
    2 * (IF "C" \in DOMAIN f THEN f["C"] ELSE 0)
      - (IF "H" \in DOMAIN f THEN f["H"] ELSE 0)
      - (IF "Cl" \in DOMAIN f THEN f["Cl"] ELSE 0)
      + (IF "N" \in DOMAIN f THEN f["N"] ELSE 0) + 2

KeptIndices ==
    { i \in 1..Len(yielded) :
        unsaturationRange[1] <= DBEHalves(yielded[i]) /\ DBEHalves(yielded[i]) <= unsaturationRange[2] }

\* C4: the results of find_molecular_formulas are exactly the yielded formulas
\* whose unsaturation u satisfies unsaturationRange[0] <= u <= unsaturationRange[1]:
\* u on either bound is kept, u outside is absent, none inside is dropped.
C4_ExactlyUnsaturationFiltered ==
    Finding =>
        /\ { possible_formulas[j].formula : j \in 1..Len(possible_formulas) }
              = { yielded[i] : i \in KeptIndices }
        /\ Len(possible_formulas) = Cardinality(KeptIndices)

\* a returned list holding a candidate on the lower bound and one on the upper
\* bound of unsaturationRange, while a yielded formula was dropped
C4_Witness ==
    /\ Finding /\ pc = "returned"
    /\ \E j \in 1..Len(possible_formulas) :
          DBEHalves(possible_formulas[j].formula) = unsaturationRange[1]
    /\ \E j \in 1..Len(possible_formulas) :
          DBEHalves(possible_formulas[j].formula) = unsaturationRange[2]
    /\ Len(possible_formulas) < Len(yielded)

\* C5: whenever atomRanges has a symbol without an entry in the mass table,
\* find_molecular_formulas fails with the missing-entry error, for every choice
\* of bounds (it never returns a list), and no candidate is produced first.
\* Stated for well-formed ranges (min <= max), so that a violation does not
\* rest on the empty product of a malformed range.
C5_MissingMassAlwaysFails ==
    (Finding /\ MissingSymbol /\ ~InvalidEntry) => (pc # "returned" /\ yielded = <<>>)

\* C6: find_molecular_formulas fails whenever an entry of atomRanges has
\* min > max; it does not return a result list for such an input.
C6_InvalidRangeFails ==
    (Finding /\ InvalidEntry) => pc # "returned"

\* C7: for every result with mass m > 0 and exactMass = targetMass - ionization,
\* the deviation is positive when m < exactMass, negative when m > exactMass,
\* zero when m = exactMass, and the result's m/z equals m + ionization.
C7_DeviationSignAndMz ==
    Finding =>
        \A j \in 1..Len(possible_formulas) :
            LET r == possible_formulas[j]
                m == PointMass(CountsOf(r.formula))
            IN  m > 0 =>
                /\ r.mass = m
                /\ r.deviation[2] > 0
                /\ (m < targetMass - ionization => r.deviation[1] > 0)
                /\ (m > targetMass - ionization => r.deviation[1] < 0)
                /\ (m = targetMass - ionization => r.deviation[1] = 0)
                /\ r.mz = m + ionization

\* a returned list with a candidate below, one above and one equal to
\* exactMass, computed with a non-zero ionization
C7_Witness ==
    /\ Finding /\ pc = "returned" /\ ionization # 0
    /\ \E j \in 1..Len(possible_formulas) : possible_formulas[j].mass < targetMass - ionization
    /\ \E j \in 1..Len(possible_formulas) : possible_formulas[j].mass > targetMass - ionization
    /\ \E j \in 1..Len(possible_formulas) : possible_formulas[j].mass = targetMass - ionization

LexLess(a, b) ==
    \E k \in 1..Len(a) : a[k] < b[k] /\ \A l \in 1..(k - 1) : a[l] = b[l]

C10_AlwaysTrue ==
    (call = "is_valid_formula" /\ pc # "call") => (valid = "True" /\ raised = "None")

====
